---- MODULE Spec2Model ----
(***************************************************************************)
(* The notebook notebooks/dbg-deepar.ipynb as a state machine: one kernel   *)
(* thread that runs the code cells in order, the widget callback            *)
(* plot_interact queued on that thread, and the managed service the cells   *)
(* call (training jobs, endpoints).                                         *)
(***************************************************************************)
EXTENDS Integers, Sequences, FiniteSets, TLC

VARIABLES
    intervalIn,  \* the value typed for `interval` at line 60
    rows,        \* rows of the resampled table held in S3
    ns,          \* the kernel's namespace: assigned names and their values
    pc,          \* index in Cells of the next cell of the run
    halted,      \* a cell raised: the run in order stops there
    error,       \* what it raised
    running,     \* the cell the kernel thread is inside a remote call of
    cbRunning,   \* the kernel thread is inside plot_interact
    clicks,      \* the widget button: clicks pending and clicks made
    issued,      \* the remote calls issued so far, in order
    inflight,    \* indexes in issued of the remote operations in progress
    jobs,        \* the service's training jobs, by name
    endpoints    \* the service's endpoints, by name

vars == <<intervalIn, rows, ns, pc, halted, error, running, cbRunning,
          clicks, issued, inflight, jobs, endpoints>>

\* ------------------------------------------------------------- bounds
\* Values the user may type for `interval` in the parameter cell.
Intervals == {"D", "H", "W", "M"}
\* Rows of the resampled table beyond the shortest one that holds a history.
MaxExtraRows == 2
\* Clicks on the widget's button during one run.
MaxClicks == 2
\* Distinct time stamps a new training job name can carry.
MaxStamp == 2

\* ------------------------------------------------------------ helpers
Bind(env, name, val) ==
    [n \in (DOMAIN env) \cup {name} |-> IF n = name THEN val ELSE env[n]]

Defined(name) == name \in DOMAIN ns

\* str(n) of a non-negative integer, as its sequence of decimal digits.
RECURSIVE IntToStr(_)
IntToStr(n) == IF n < 10 THEN <<n>> ELSE Append(IntToStr(n \div 10), n % 10)

\* The service's reading of a numeric hyperparameter string.
RECURSIVE StrToInt(_)
StrToInt(s) ==
    IF Len(s) = 0 THEN 0
    ELSE 10 * StrToInt(SubSeq(s, 1, Len(s) - 1)) + s[Len(s)]

\* A run of rows [lo, hi) of one column of the table.
SliceLen(sl) == IF sl.hi > sl.lo THEN sl.hi - sl.lo ELSE 0

\* -------------------------------------------------- the parameter cell
AssertIntervalAny(iv) == TRUE

AssertInterval(iv) == iv = "D" \/ iv = "H"

Lengths(env, iv) ==
    IF iv = "D"
    THEN Bind(Bind(env, "prediction_length", 91), "context_length", 91)
    ELSE IF iv = "H"
    THEN Bind(Bind(env, "prediction_length", 2184), "context_length", 2184)
    ELSE env

mnemonics == <<"CON", "DAI", "PAH3", "BMW", "VOW3">>
target_column == "EndPrice"
covariate_columns == <<"StartPrice", "MinPrice", "MaxPrice">>
num_test_windows == 4

HyperparametersFixedHorizon(env) ==
    [prediction_length |-> IntToStr(91),
     context_length |-> IntToStr(env["context_length"]),
     time_freq |-> env["interval"],
     epochs |-> IntToStr(200),
     early_stopping_patience |-> IntToStr(40),
     num_layers |-> IntToStr(2),
     num_cells |-> IntToStr(40),
     mini_batch_size |-> IntToStr(128),
     learning_rate |-> "1e-3",
     dropout_rate |-> "0.1",
     likelihood |-> "gaussian"]

Hyperparameters(env) ==
    [prediction_length |-> IntToStr(env["prediction_length"]),
     context_length |-> IntToStr(env["context_length"]),
     time_freq |-> env["interval"],
     epochs |-> IntToStr(200),
     early_stopping_patience |-> IntToStr(40),
     num_layers |-> IntToStr(2),
     num_cells |-> IntToStr(40),
     mini_batch_size |-> IntToStr(128),
     learning_rate |-> "1e-3",
     dropout_rate |-> "0.1",
     likelihood |-> "gaussian"]

\* ------------------------------------------------------- the notebook
Cells == <<"params", "session", "load", "split", "metrics_plot",
           "timeseries_plot", "fit", "deploy", "rebind", "predict",
           "plot_predicted", "interact", "delete">>

CellAt(i) == IF i \in 1..Len(Cells) THEN Cells[i] ELSE "end"

\* The kernel runs one message at a time: a cell or a widget callback.
KernelIdle == running = "none" /\ ~cbRunning

\* The next cell of the run may start.
Ready(cell) == KernelIdle /\ ~halted /\ CellAt(pc) = cell

\* The job name of line 316, the training of an earlier session.
PrevJob == <<"dbg-deepar", "D", 0>>

Init ==
    /\ intervalIn \in Intervals
    /\ rows \in {(IF intervalIn = "D" THEN 91
                  ELSE IF intervalIn = "H" THEN 2184 ELSE 0) + 1 + k :
                 k \in 0..MaxExtraRows}
    /\ ns = <<>>
    /\ pc = 1
    /\ halted = FALSE
    /\ error = "none"
    /\ running = "none"
    /\ cbRunning = FALSE
    /\ clicks = [pending |-> 0, total |-> 0]
    /\ issued = <<>>
    /\ inflight = {}
    /\ jobs = (PrevJob :> [status |-> "Completed",
                           hyperparameters |->
                               Hyperparameters(Lengths([interval |-> "D"], "D"))])
    /\ endpoints = (PrevJob :> [status |-> "InService", job |-> PrevJob])

Raise(kind) == halted' = TRUE /\ error' = kind /\ running' = "none"

ParamCell ==
    /\ Ready("params")
    /\ LET ns1 == Bind(ns, "interval", intervalIn)
           ns2 == Lengths(ns1, intervalIn)
           ns3 == Bind(Bind(Bind(Bind(Bind(ns2,
                      "mnemonics", mnemonics),
                      "target_column", target_column),
                      "covariate_columns", covariate_columns),
                      "train_test_split", <<8, 10>>),
                      "num_test_windows", num_test_windows)
       IN IF ~AssertInterval(intervalIn)
          THEN /\ ns' = ns1
               /\ Raise("AssertionError")
               /\ pc' = pc
          ELSE IF "prediction_length" \notin DOMAIN ns3
          THEN /\ ns' = ns3
               /\ Raise("NameError")
               /\ pc' = pc
          ELSE /\ ns' = Bind(ns3, "hyperparameters", Hyperparameters(ns3))
               /\ pc' = pc + 1
               /\ UNCHANGED <<halted, error, running>>
    /\ UNCHANGED <<intervalIn, rows, cbRunning, clicks, issued, inflight,
                   jobs, endpoints>>

\* ------------------------------------------- session, data, plot cells
SessionCell ==
    /\ Ready("session")
    /\ ns' = Bind(Bind(Bind(ns,
                 "image_name", <<"forecasting-deepar", "latest">>),
                 "s3_data_key", "dbg-stockdata/source"),
                 "s3_output_path",
                     <<"s3", "dbg-stockdata/source", ns["interval"], "output">>)
    /\ pc' = pc + 1
    /\ UNCHANGED <<intervalIn, rows, halted, error, running, cbRunning, clicks,
                   issued, inflight, jobs, endpoints>>

Metrics == Append(covariate_columns, target_column)

\* The resampled table: one column per stock and metric, `n` rows.
LoadResampledFromS3(mn, metrics, n) ==
    [columns |-> {<<mn[i], metrics[j]>> :
                      i \in 1..Len(mn), j \in 1..Len(metrics)},
     rows |-> n]

LoadCell ==
    /\ Ready("load")
    /\ ns' = Bind(Bind(Bind(ns,
                 "metrics", Metrics),
                 "stock_data_series",
                     LoadResampledFromS3(ns["mnemonics"], Metrics, rows)),
                 "symbols", ns["mnemonics"])
    /\ pc' = pc + 1
    /\ UNCHANGED <<intervalIn, rows, halted, error, running, cbRunning, clicks,
                   issued, inflight, jobs, endpoints>>

\* One record of the service's input schema: the series of one stock, its
\* target column and its covariate columns as dynamic features.
SeriesRecord(sym, target, covs) ==
    [symbol |-> sym,
     target |-> <<sym, target>>,
     dynamic_feat |-> [i \in 1..Len(covs) |-> <<sym, covs[i]>>]]

SplitCell ==
    /\ Ready("split")
    /\ LET syms == ns["symbols"]
           rec(i) == SeriesRecord(syms[i], ns["target_column"],
                                   ns["covariate_columns"])
       IN ns' = Bind(Bind(Bind(Bind(ns,
                 "train_data", [i \in 1..Len(syms) |-> rec(i)]),
                 "test_data",
                     [w \in 1..ns["num_test_windows"] |->
                         [i \in 1..Len(syms) |-> rec(i)]]),
                 "train_channel", <<"s3", ns["s3_data_key"], "train">>),
                 "test_channel", <<"s3", ns["s3_data_key"], "test">>)
    /\ pc' = pc + 1
    /\ UNCHANGED <<intervalIn, rows, halted, error, running, cbRunning, clicks,
                   issued, inflight, jobs, endpoints>>

MetricsPlotCell ==
    /\ Ready("metrics_plot")
    /\ pc' = pc + 1
    /\ UNCHANGED <<intervalIn, rows, ns, halted, error, running, cbRunning,
                   clicks, issued, inflight, jobs, endpoints>>

TimeseriesPlotCell ==
    /\ Ready("timeseries_plot")
    /\ pc' = pc + 1
    /\ UNCHANGED <<intervalIn, rows, ns, halted, error, running, cbRunning,
                   clicks, issued, inflight, jobs, endpoints>>

\* ------------------------------------------------------- remote calls
Call(op, target, by) == [op |-> op, target |-> target, by |-> by]

\* The call of the cell the kernel thread is inside.
CellCall == CHOOSE i \in 1..Len(issued) :
                issued[i].by = "cell" /\ issued[i].op = running
                /\ \A j \in 1..Len(issued) :
                       (issued[j].by = "cell" /\ issued[j].op = running) => j <= i

FitNoWait == FALSE

\* estimator.fit(inputs=data_channels, wait=True)
FitWait == TRUE

FitIssue ==
    /\ Ready("fit")
    /\ \E stamp \in 1..MaxStamp :
         LET job == <<"dbg-deepar", ns["interval"], stamp>>
         IN /\ job \notin DOMAIN jobs
            /\ jobs' = Bind(jobs, job,
                            [status |-> "InProgress",
                             hyperparameters |-> ns["hyperparameters"]])
            /\ ns' = Bind(Bind(ns,
                        "estimator", [latest_training_job |-> job]),
                        "data_channels",
                            [train |-> ns["train_channel"],
                             test |-> ns["test_channel"]])
            /\ issued' = Append(issued, Call("fit", job, "cell"))
    /\ inflight' = inflight \cup {Len(issued) + 1}
    /\ running' = "fit"
    /\ UNCHANGED <<intervalIn, rows, pc, halted, error, cbRunning, clicks,
                   endpoints>>

\* The service ends a training job, with or without a model.
TrainingFinishes ==
    /\ \E i \in inflight :
         /\ issued[i].op = "fit"
         /\ \E outcome \in {"Completed", "Failed"} :
              jobs' = [jobs EXCEPT ![issued[i].target].status = outcome]
         /\ inflight' = inflight \ {i}
    /\ UNCHANGED <<intervalIn, rows, ns, pc, halted, error, running,
                   cbRunning, clicks, issued, endpoints>>

FitReturn ==
    /\ running = "fit"
    /\ LET job == ns["estimator"].latest_training_job
       IN /\ FitWait => jobs[job].status # "InProgress"
          /\ IF FitWait /\ jobs[job].status = "Failed"
             THEN /\ Raise("TrainingFailed")
                  /\ UNCHANGED <<ns, pc>>
             ELSE /\ ns' = Bind(ns, "estimator_job", job)
                  /\ pc' = pc + 1
                  /\ running' = "none"
                  /\ UNCHANGED <<halted, error>>
    /\ UNCHANGED <<intervalIn, rows, cbRunning, clicks, issued, inflight,
                   jobs, endpoints>>

\* A handle to the endpoint of that name.
DeepARPredictor(name) == [endpoint |-> name]

\* deploy is given no endpoint_name: the endpoint takes the job's name.
DeployEndpointName(job) == job

DeployIssue ==
    /\ Ready("deploy")
    /\ issued' = Append(issued,
                   Call("deploy", ns["estimator"].latest_training_job, "cell"))
    /\ inflight' = inflight \cup {Len(issued) + 1}
    /\ running' = "deploy"
    /\ UNCHANGED <<intervalIn, rows, ns, pc, halted, error, cbRunning, clicks,
                   jobs, endpoints>>

DeployReturn ==
    /\ running = "deploy"
    /\ LET job == issued[CellCall].target
           name == DeployEndpointName(job)
       IN \/ /\ jobs[job].status = "Completed"
             /\ name \notin DOMAIN endpoints
             /\ endpoints' = Bind(endpoints, name,
                                  [status |-> "InService", job |-> job])
             /\ ns' = Bind(ns, "predictor", DeepARPredictor(name))
             /\ pc' = pc + 1
             /\ running' = "none"
             /\ UNCHANGED <<halted, error>>
          \/ /\ Raise("DeployFailed")
             /\ UNCHANGED <<ns, pc, endpoints>>
    /\ inflight' = inflight \ {CellCall}
    /\ UNCHANGED <<intervalIn, rows, cbRunning, clicks, issued, jobs>>

RebindPrevJobName(env) == PrevJob

\* The job name the cell hands to DeepARPredictor: line 316 is a comment.
RebindJobName(env) == env["estimator_job"]

RebindCell ==
    /\ Ready("rebind")
    /\ ns' = Bind(ns, "predictor", DeepARPredictor(RebindJobName(ns)))
    /\ pc' = pc + 1
    /\ UNCHANGED <<intervalIn, rows, halted, error, running, cbRunning, clicks,
                   issued, inflight, jobs, endpoints>>

\* The history of one stock up to the forecast horizon before the table's
\* end, its covariates over the history and the horizon, its whole series.
QueryForStock(stock, target, covs, data, horizon) ==
    [ts |-> [col |-> <<stock, target>>, lo |-> 0, hi |-> data.rows - horizon],
     dynamic_feat |-> [i \in 1..Len(covs) |->
                          [col |-> <<stock, covs[i]>>, lo |-> 0,
                           hi |-> data.rows]],
     observed |-> [col |-> <<stock, target>>, lo |-> 0, hi |-> data.rows]]

PredictIssue ==
    /\ Ready("predict")
    /\ LET q == QueryForStock("BMW", ns["target_column"],
                              ns["covariate_columns"],
                              ns["stock_data_series"],
                              ns["prediction_length"])
       IN ns' = Bind(Bind(Bind(Bind(ns,
                   "ts", q.ts),
                   "dynamic_feat", q.dynamic_feat),
                   "observed", q.observed),
                   "quantiles", <<10, 50, 90>>)
    /\ issued' = Append(issued,
                        Call("predict", ns["predictor"].endpoint, "cell"))
    /\ inflight' = inflight \cup {Len(issued) + 1}
    /\ running' = "predict"
    /\ UNCHANGED <<intervalIn, rows, pc, halted, error, cbRunning, clicks,
                   jobs, endpoints>>

InService(name) ==
    name \in DOMAIN endpoints /\ endpoints[name].status = "InService"

PredictReturn ==
    /\ running = "predict"
    /\ \/ /\ InService(issued[CellCall].target)
          /\ ns' = Bind(ns, "prediction", "forecast")
          /\ pc' = pc + 1
          /\ running' = "none"
          /\ UNCHANGED <<halted, error>>
       \/ /\ Raise("PredictFailed")
          /\ UNCHANGED <<ns, pc>>
    /\ inflight' = inflight \ {CellCall}
    /\ UNCHANGED <<intervalIn, rows, cbRunning, clicks, issued, jobs,
                   endpoints>>

PlotPredictedCell ==
    /\ Ready("plot_predicted")
    /\ pc' = pc + 1
    /\ UNCHANGED <<intervalIn, rows, ns, halted, error, running, cbRunning,
                   clicks, issued, inflight, jobs, endpoints>>

\* ------------------------------------------------- the widget callback
InteractCell ==
    /\ Ready("interact")
    /\ ns' = Bind(ns, "plot_interact", "registered")
    /\ pc' = pc + 1
    /\ UNCHANGED <<intervalIn, rows, halted, error, running, cbRunning, clicks,
                   issued, inflight, jobs, endpoints>>

Click ==
    /\ Defined("plot_interact")
    /\ clicks.total < MaxClicks
    /\ clicks' = [pending |-> clicks.pending + 1, total |-> clicks.total + 1]
    /\ UNCHANGED <<intervalIn, rows, ns, pc, halted, error, running, cbRunning,
                   issued, inflight, jobs, endpoints>>

\* What the conditional expression of lines 384-389 evaluates to: `+` binds
\* tighter than `if`, so only the 'D' branch adds to end_training.
ForecastDate(iv) ==
    IF iv = "D" THEN "timestamp"
    ELSE IF iv \in {"H", "W", "M"} THEN "timedelta" ELSE "int"

CallbackMayRunAnyTime == TRUE

\* The button's handler is a message on the kernel's one thread.
CallbackMayRun == KernelIdle

CallbackStart ==
    /\ CallbackMayRun
    /\ ~cbRunning
    /\ clicks.pending > 0
    /\ clicks' = [clicks EXCEPT !.pending = @ - 1]
    /\ \/ /\ issued' = Append(issued,
                         Call("predict", ns["predictor"].endpoint, "callback"))
          /\ inflight' = inflight \cup {Len(issued) + 1}
          /\ cbRunning' = TRUE
       \/ /\ ForecastDate(ns["interval"]) # "timestamp"
          /\ UNCHANGED <<issued, inflight, cbRunning>>
    /\ UNCHANGED <<intervalIn, rows, ns, pc, halted, error, running, jobs,
                   endpoints>>

CallbackReturn ==
    /\ cbRunning
    /\ \E i \in inflight :
         /\ issued[i].by = "callback"
         /\ inflight' = inflight \ {i}
    /\ cbRunning' = FALSE
    /\ UNCHANGED <<intervalIn, rows, ns, pc, halted, error, running, clicks,
                   issued, jobs, endpoints>>

\* ---------------------------------------------------- delete_endpoint
DeleteIssue ==
    /\ Ready("delete")
    /\ issued' = Append(issued,
                   Call("delete_endpoint", ns["predictor"].endpoint, "cell"))
    /\ inflight' = inflight \cup {Len(issued) + 1}
    /\ running' = "delete_endpoint"
    /\ UNCHANGED <<intervalIn, rows, ns, pc, halted, error, cbRunning, clicks,
                   jobs, endpoints>>

DeleteReturn ==
    /\ running = "delete_endpoint"
    /\ \/ /\ InService(issued[CellCall].target)
          /\ endpoints' =
                 [endpoints EXCEPT ![issued[CellCall].target].status = "Deleted"]
          /\ pc' = pc + 1
          /\ running' = "none"
          /\ UNCHANGED <<halted, error>>
       \/ /\ Raise("DeleteFailed")
          /\ UNCHANGED <<pc, endpoints>>
    /\ inflight' = inflight \ {CellCall}
    /\ UNCHANGED <<intervalIn, rows, ns, cbRunning, clicks, issued, jobs>>

Next ==
    \/ ParamCell
    \/ SessionCell
    \/ LoadCell
    \/ SplitCell
    \/ MetricsPlotCell
    \/ TimeseriesPlotCell
    \/ FitIssue
    \/ TrainingFinishes
    \/ FitReturn
    \/ DeployIssue
    \/ DeployReturn
    \/ RebindCell
    \/ PredictIssue
    \/ PredictReturn
    \/ PlotPredictedCell
    \/ InteractCell
    \/ Click
    \/ CallbackStart
    \/ CallbackReturn
    \/ DeleteIssue
    \/ DeleteReturn

Spec == Init /\ [][Next]_vars

\* --------------------------------------------------------- properties
CellIndex(cell) == CHOOSE i \in 1..Len(Cells) : Cells[i] = cell

\* The cell has run to its end.
Executed(cell) == pc > CellIndex(cell)

\* The run in order is over: its last cell ended, or a cell raised.
RunEnded == KernelIdle /\ (halted \/ pc > Len(Cells))

\* The endpoints this run's deploy provisioned.
CreatedEndpoints == (DOMAIN endpoints) \ {PrevJob}

\* deploy has returned an endpoint for the job the run trained.
DeployReturned ==
    /\ Defined("estimator_job")
    /\ \E i \in 1..Len(issued) : issued[i].op = "deploy" /\ i \notin inflight
    /\ \E e \in CreatedEndpoints : endpoints[e].job = ns["estimator_job"]

OpsIssued == [i \in 1..Len(issued) |-> issued[i].op]

\* C1: deploy is issued only after fit has returned with the training job
\* finished, every predict only after deploy has returned an endpoint, and
\* delete_endpoint only after deploy; fit is the first remote call.
C1_RemoteCallOrder ==
    [][Len(issued') > Len(issued) =>
         LET c == issued'[Len(issued')]
         IN /\ c.op = "fit" => issued = <<>>
            /\ c.op = "deploy" =>
                   /\ Defined("estimator_job")
                   /\ c.target = ns["estimator_job"]
                   /\ jobs[c.target].status = "Completed"
                   /\ \A i \in inflight : issued[i].op # "fit"
            /\ c.op = "predict" => DeployReturned
            /\ c.op = "delete_endpoint" => DeployReturned]_vars

\* A run that issued fit, deploy, predict and delete_endpoint and ended.
C1_Witness ==
    /\ pc > Len(Cells)
    /\ Len(issued) >= 4
    /\ SubSeq(OpsIssued, 1, 4) = <<"fit", "deploy", "predict", "delete_endpoint">>

\* C2: when the run has ended, no endpoint that its deploy provisioned is
\* still in service.
C2_EndpointDeletedAtRunEnd ==
    RunEnded => \A e \in CreatedEndpoints : endpoints[e].status # "InService"

\* C3: once the parameter cell has run, an interval other than 'D' and 'H'
\* has failed the assertion with no length, no hyperparameters and no remote
\* call, and 'D' and 'H' have passed it with both lengths assigned, 91 for
\* 'D' and 2184 for 'H'.
C3_IntervalAssertion ==
    Defined("interval") =>
        IF ns["interval"] \in {"D", "H"}
        THEN /\ error # "AssertionError"
             /\ Defined("prediction_length") /\ Defined("context_length")
             /\ ns["prediction_length"] = (IF ns["interval"] = "D" THEN 91 ELSE 2184)
             /\ ns["context_length"] = ns["prediction_length"]
             /\ Defined("hyperparameters")
        ELSE /\ halted /\ error = "AssertionError"
             /\ ~Defined("prediction_length") /\ ~Defined("context_length")
             /\ ~Defined("hyperparameters")
             /\ issued = <<>>
             /\ DOMAIN jobs = {PrevJob} /\ CreatedEndpoints = {}

\* The cell has rejected an interval the callback's expression allows for.
C3_Witness ==
    /\ Defined("interval") /\ ns["interval"] = "W"
    /\ halted /\ error = "AssertionError"

\* C4: at most one remote operation is in progress at any time.
C4_OneRemoteCallAtATime == Cardinality(inflight) <= 1

\* The callback's predict is in progress while the run still has a cell to go.
C4_Witness ==
    /\ cbRunning
    /\ \E i \in inflight : issued[i].by = "callback"
    /\ CellAt(pc) = "delete" /\ ~halted

C8_SixSeries ==
    Defined("train_data") =>
        /\ Len(ns["train_data"]) = 6
        /\ \A i \in 1..Len(ns["train_data"]) :
               /\ ns["train_data"][i].target[2] = "EndPrice"
               /\ Len(ns["train_data"][i].dynamic_feat) = 3

\* C10: the handle of the rebinding cell designates the endpoint deploy
\* provisioned for the run's training job, and every predict and
\* delete_endpoint is sent to that endpoint.
C10_HandleDesignatesDeployedEndpoint ==
    /\ Executed("rebind") =>
           /\ ns["predictor"].endpoint \in CreatedEndpoints
           /\ endpoints[ns["predictor"].endpoint].job = ns["estimator_job"]
    /\ \A i \in 1..Len(issued) :
           issued[i].op \in {"predict", "delete_endpoint"} =>
               /\ issued[i].target \in CreatedEndpoints
               /\ endpoints[issued[i].target].job = ns["estimator_job"]

\* After the rebinding, a predict of the cell, one of the callback and the
\* delete_endpoint have been sent, and the endpoint is deleted.
C10_Witness ==
    /\ Executed("delete")
    /\ \E i \in 1..Len(issued) : issued[i].op = "predict" /\ issued[i].by = "callback"
    /\ \E e \in CreatedEndpoints : endpoints[e].status = "Deleted"
====
